---- MODULE Spec2Model ----
(***************************************************************************)
(* Model of elysia-body-limit (src/src/index.ts, the current revision of   *)
(* bodyLimit at lines 326-451): installation of the plugin on an app, the  *)
(* onRequest hook (declared-length gate, content-type filter, attachment   *)
(* of the sizeChecker TransformStream), the sizeChecker's transform, and   *)
(* the onError hook that turns a failed body stream into a response.       *)
(*                                                                         *)
(* Strings of header values that the code inspects character by character  *)
(* (Content-Type) are sequences of one-character strings.  A header is an  *)
(* option: <<>> when the request does not carry it, <<v>> when it carries  *)
(* the value v (what headers.get returns).                                 *)
(***************************************************************************)
EXTENDS Integers, Sequences, FiniteSets, TLC

VARIABLES
    phase,      \* "new": bodyLimit(userOptions) not applied to the app yet;
                \* "installed": the plugin returned the app with its hooks;
                \* "failed": the plugin threw while validating
    rootMax,    \* the root app's config.serve.maxRequestBodySize: <<>> or <<n>>
    hooks,      \* the hooks registered on the app, a subset of {"onError", "onRequest"}
    options,    \* the options object of the installation (lines 328-331)
    cfg,        \* the constants the plugin resolved from its options (lines 344-350)
    req         \* per in-flight request: its view, the hook's effects, its body stream

vars == <<phase, rootMax, hooks, options, cfg, req>>

----------------------------------------------------------------------------
\* Bounds of the model

\* largest maxSize an installation draws, besides the values around BUN_MAX_SIZE
MaxSize == 2

\* largest numeric Content-Length a request declares
MaxLength == 3

\* largest number of bytes in one body chunk
MaxChunkLen == 2

\* largest number of chunks a body source produces
MaxChunks == 3

\* longest raw Content-Type header value
MaxTypeLen == 3

----------------------------------------------------------------------------
\* Program constants

\* const BUN_MAX_SIZE = 128 * 1024 * 1024
BUN_MAX_SIZE == 134217728

\* { highWaterMark: 1024 * 1024 }: the writable side's queue, counted in chunks
highWaterMark == 1048576

----------------------------------------------------------------------------
\* Values

\* JavaScript's undefined, as a handler's or a hook's return value
Undefined == [kind |-> "undefined", code |-> 0]

\* ctx.status(code): an ElysiaCustomStatusResponse (an instance of ElysiaStatus)
Status(code) == [kind |-> "status", code |-> code]

\* new Response(..., {status: code})
ResponseOf(code) == [kind |-> "response", code |-> code]

\* a truthy value that is neither an ElysiaStatus nor a Response (a string, an object)
Other == [kind |-> "other", code |-> 0]

\* the route's own answer once the request reached it
RouteOk == [kind |-> "route", code |-> 200]

\* the host's answer to a PARSE error no onError hook resolved
HostParseError == [kind |-> "hostError", code |-> 400]

\* no response yet
NoResponse == [kind |-> "none", code |-> 0]

\* characters of a raw Content-Type value: a letter of a media type, OWS, the
\* parameter separator
Chars == {"a", " ", ";"}

\* if (e): JavaScript truthiness of a handler's return value
Truthy(v) == v.kind \in {"status", "response", "other"}

----------------------------------------------------------------------------
\* Headers

\* headers.get(name): the value, or null (here Undefined-like <<>>) when absent
Absent == <<>>

Present(v) == <<v>>

\* a Content-Length value: its text is "empty" (the empty string), "digits"
\* (a decimal number n), "malformed" (text that Number() turns into NaN, such
\* as "abc" or "12abc") or "infinity" (the text "Infinity", which Number()
\* turns into the number Infinity)
LengthValue(text, n) == [text |-> text, n |-> n]

LengthValues ==
    {LengthValue("empty", 0), LengthValue("malformed", 0), LengthValue("infinity", 0)}
        \cup {LengthValue("digits", n) : n \in 0..MaxLength}

\* mutant of lengthMissing: only null counts as missing (length === null)
lengthMissing_nullOnly(length) ==
    length = Absent

\* !length: null and the empty string are falsy, every other string is truthy
lengthMissing(length) ==
    length = Absent \/ length[1].text = "empty"

\* !transferEncoding: null and the empty string are falsy
noTransferEncoding(transferEncoding) ==
    transferEncoding = Absent \/ transferEncoding[1] = ""

\* all sequences over S of length at most n
RECURSIVE SeqsUpTo(_, _)
SeqsUpTo(S, n) ==
    IF n = 0 THEN {<<>>}
    ELSE LET shorter == SeqsUpTo(S, n - 1)
         IN shorter \cup {Append(s, c) : s \in {t \in shorter : Len(t) = n - 1}, c \in S}

\* the values headers.get("content-type") can return: the Headers class strips
\* leading and trailing whitespace from every value it stores
TypeValues ==
    {s \in SeqsUpTo(Chars, MaxTypeLen) :
        s = <<>> \/ (s[1] # " " /\ s[Len(s)] # " ")}

\* String.prototype.indexOf for a single character: 0-based, -1 when not found
indexOf(s, c) ==
    IF \E i \in 1..Len(s) : s[i] = c
    THEN (CHOOSE i \in 1..Len(s) : s[i] = c /\ \A j \in 1..(i - 1) : s[j] # c) - 1
    ELSE -1

\* String.prototype.slice(0, end) for 0 <= end <= length
slice(s, end) == SubSeq(s, 1, end)

\* const type = headers.get("content-type") || ""
typeOf(ct) == IF ct = Absent THEN <<>> ELSE ct[1]

\* mutant of contentTypeOf: the whole raw value, as the earlier revision
\* compared it (line 139)
contentTypeOf_whole(type) == type

\* lines 391-392: the part of the raw value before the first ";"
contentTypeOf(type) ==
    LET semicolon == indexOf(type, ";")
    IN IF semicolon = -1 THEN type ELSE slice(type, semicolon)

----------------------------------------------------------------------------
\* Installation: bodyLimit(userOptions)(app), lines 326-363

\* the media types an operator writes into bodyCheckBlacklist / bodyCheckWhitelist
ListTypes == {<<>>, <<"a">>}

\* a handler option: the default of defaultOptions, or a function of the user
\* whose return value the environment picks at each call
Handlers == {"default", "custom"}

\* the maxSize values an installation draws: small caps, and the caps around
\* Bun's default ceiling
Sizes == (0..MaxSize) \cup {BUN_MAX_SIZE, BUN_MAX_SIZE + 1}

\* ElysiaBodyLimitOptions after the spread over defaultOptions (lines 328-331);
\* an unset list is <<>>, a list given is <<set>>
UserOptions ==
    [maxSize : Sizes,
     validateBunConfig : BOOLEAN,
     strictContentLength : BOOLEAN,
     bodyCheck : BOOLEAN,
     bodyCheckBlacklist : {Absent} \cup {Present(l) : l \in SUBSET ListTypes},
     bodyCheckWhitelist : {Absent} \cup {Present(l) : l \in SUBSET ListTypes},
     onLengthRequired : Handlers,
     onLimit : Handlers]

\* new Set(list || [])
setOf(list) == IF list = Absent THEN {} ELSE list[1]

\* mutant of reqMaxSizeOf: the root app's setting is never read
reqMaxSizeOf_defaultOnly(root) == BUN_MAX_SIZE

\* cfg.serve?.maxRequestBodySize ?? BUN_MAX_SIZE
reqMaxSizeOf(root) == IF root = Absent THEN BUN_MAX_SIZE ELSE root[1]

\* mutant of tooLarge: the comparison of the earlier revision (line 171)
tooLarge_ge(maxSize, reqMaxSize) == maxSize >= reqMaxSize

\* line 356: the comparison that makes the installation throw
tooLarge(maxSize, reqMaxSize) == maxSize > reqMaxSize

\* mutant of resolve: strict mode is on whatever the options say
resolve_strictOn(o) ==
    [blacklist |-> setOf(o.bodyCheckBlacklist),
     whitelist |-> setOf(o.bodyCheckWhitelist),
     bodyCheck |-> o.bodyCheck,
     strictContentLength |-> TRUE,
     maxSize |-> o.maxSize,
     onLengthRequired |-> o.onLengthRequired,
     onLimit |-> o.onLimit]

\* lines 344-350: the constants the hooks close over
resolve(o) ==
    [blacklist |-> setOf(o.bodyCheckBlacklist),
     whitelist |-> setOf(o.bodyCheckWhitelist),
     bodyCheck |-> o.bodyCheck,
     strictContentLength |-> o.strictContentLength,
     maxSize |-> o.maxSize,
     onLengthRequired |-> o.onLengthRequired,
     onLimit |-> o.onLimit]

\* no plugin applied yet: no options object
NoOptions ==
    [maxSize |-> 0, validateBunConfig |-> FALSE, strictContentLength |-> FALSE,
     bodyCheck |-> FALSE, bodyCheckBlacklist |-> Absent,
     bodyCheckWhitelist |-> Absent, onLengthRequired |-> "default",
     onLimit |-> "default"]

\* no plugin installed: nothing resolved
NoCfg ==
    [blacklist |-> {}, whitelist |-> {}, bodyCheck |-> FALSE,
     strictContentLength |-> FALSE, maxSize |-> 0,
     onLengthRequired |-> "default", onLimit |-> "default"]

\* the plugin function applied to the app: validate against the root app's
\* ceiling and throw (lines 353-361), else register onError and onRequest
\* (lines 363-449)
Install(o) ==
    /\ phase = "new"
    /\ options' = o
    /\ IF o.validateBunConfig /\ tooLarge(o.maxSize, reqMaxSizeOf(rootMax))
       THEN /\ phase' = "failed"
            /\ UNCHANGED <<hooks, cfg>>
       ELSE /\ phase' = "installed"
            /\ hooks' = {"onError", "onRequest"}
            /\ cfg' = resolve(o)
    /\ UNCHANGED <<rootMax, req>>

----------------------------------------------------------------------------
\* The onRequest hook, lines 376-448

\* what a custom handler can return: an ElysiaCustomStatusResponse, a Response,
\* another truthy value, or nothing
CustomReturns == {Status(400), ResponseOf(400), Other, Undefined}

\* defaultOptions.onLengthRequired (ctx.status(411)) or the user's function
onLengthRequired(c, drawn) ==
    IF c.onLengthRequired = "default" THEN Status(411) ELSE drawn

\* mutant of onLimit: one override replaces both handlers
onLimit_shared(c, drawn) ==
    IF c.onLimit = "default" /\ c.onLengthRequired = "default"
    THEN Status(413) ELSE drawn

\* defaultOptions.onLimit (ctx.status(413)) or the user's function
onLimit(c, drawn) ==
    IF c.onLimit = "default" THEN Status(413) ELSE drawn

\* mutant of declaredOver: a maxSize of 0 is no cap, as in the earlier
\* revision (line 110)
declaredOver_zeroIsNoCap(length, maxSize) ==
    /\ maxSize # 0
    /\ \/ length[1].text = "infinity"
       \/ length[1].text = "digits" /\ length[1].n > maxSize

\* mutant of declaredOver: >= in place of >
declaredOver_ge(length, maxSize) ==
    \/ length[1].text = "infinity"
    \/ length[1].text = "digits" /\ length[1].n >= maxSize

\* mutant of declaredOver: !(+length <= maxSize), which is true of NaN
declaredOver_notLe(length, maxSize) ==
    ~(length[1].text = "digits" /\ length[1].n <= maxSize)

\* line 407: +length > maxSize; Number() of malformed text is NaN and every
\* comparison with NaN is false; Infinity is greater than every maxSize
declaredOver(length, maxSize) ==
    \/ length[1].text = "infinity"
    \/ length[1].text = "digits" /\ length[1].n > maxSize

\* mutant of skipCheck: the whitelist filter is missing
skipCheck_noWhitelist(c, contentType) ==
    contentType \in c.blacklist

\* mutant of skipCheck: the whitelist filter without its size test
skipCheck_noSize(c, contentType) ==
    \/ contentType \in c.blacklist
    \/ contentType \notin c.whitelist

\* lines 419 and 422: the two filters of the chunked path; TRUE when the
\* hook returns without piping the body
skipCheck(c, contentType) ==
    \/ contentType \in c.blacklist
    \/ (Cardinality(c.whitelist) > 0 /\ contentType \notin c.whitelist)

\* the hook's effects: the value it returns, the handlers it called, and
\* whether it replaced ctx.request by a Request whose body is piped through
\* the sizeChecker
Effect(ret, calls, attached, contentType) ==
    [ret |-> ret, calls |-> calls, attached |-> attached, contentType |-> contentType]

\* mutant of bodyless: the hook does not look at the body
bodyless_never(q) == FALSE

\* line 382: !req.body, the request has no body stream
bodyless(q) == ~q.body

onRequest(c, q, lenRet, limRet) ==
    IF bodyless(q) THEN Effect(Undefined, <<>>, FALSE, <<>>)
    ELSE
      LET transferEncoding == q.te
          length == q.cl
          contentType == contentTypeOf(typeOf(q.ct))
      IN IF noTransferEncoding(transferEncoding)
         THEN IF lengthMissing(length)
              THEN IF c.strictContentLength
                   THEN Effect(onLengthRequired(c, lenRet), <<"onLengthRequired">>, FALSE, contentType)
                   ELSE Effect(Undefined, <<>>, FALSE, contentType)
              ELSE IF declaredOver(length, c.maxSize)
                   THEN Effect(onLimit(c, limRet), <<"onLimit">>, FALSE, contentType)
                   ELSE Effect(Undefined, <<>>, FALSE, contentType)
         ELSE IF ~c.bodyCheck THEN Effect(Undefined, <<>>, FALSE, contentType)
         ELSE IF skipCheck(c, contentType) THEN Effect(Undefined, <<>>, FALSE, contentType)
         ELSE Effect(Undefined, <<>>, TRUE, contentType)

\* the request views the environment sends
TransferEncodings == {Absent, Present(""), Present("chunked")}

Requests ==
    [body : BOOLEAN,
     te : TransferEncodings,
     cl : {Absent} \cup {Present(v) : v \in LengthValues},
     ct : {Absent} \cup {Present(v) : v \in TypeValues}]

\* a slot with no request in it
Idle ==
    [pc |-> "idle",
     view |-> [body |-> FALSE, te |-> Absent, cl |-> Absent, ct |-> Absent],
     ret |-> Undefined,
     calls |-> <<>>,
     attached |-> FALSE,
     contentType |-> <<>>,
     received |-> 0,
     src |-> "open",
     produced |-> <<>>,
     wq |-> <<>>,
     delivered |-> <<>>,
     stream |-> "readable",
     err |-> Undefined,
     response |-> NoResponse]

\* mutant of OnRequest: the hook lowers the cap to the length a request declares
OnRequest_adaptsCap(r, q, lenRet, limRet) ==
    /\ phase = "installed"
    /\ "onRequest" \in hooks
    /\ req[r].pc = "idle"
    /\ LET h == onRequest(cfg, q, lenRet, limRet)
       IN req' = [req EXCEPT ![r] =
                    [Idle EXCEPT
                       !.view = q,
                       !.ret = h.ret,
                       !.calls = h.calls,
                       !.attached = h.attached,
                       !.contentType = h.contentType,
                       !.pc = IF h.ret # Undefined THEN "done"
                              ELSE IF q.body THEN "body" ELSE "route",
                       !.response = IF h.ret # Undefined THEN h.ret ELSE NoResponse]]
    /\ cfg' = IF q.cl # Absent /\ q.cl[1].text = "digits" /\ q.cl[1].n < cfg.maxSize
              THEN [cfg EXCEPT !.maxSize = q.cl[1].n]
              ELSE cfg
    /\ UNCHANGED <<phase, rootMax, hooks, options>>

\* mutant of OnRequest: a hook that called a handler ends the request
\* whatever the handler returned
OnRequest_endsOnCall(r, q, lenRet, limRet) ==
    /\ phase = "installed"
    /\ "onRequest" \in hooks
    /\ req[r].pc = "idle"
    /\ LET h == onRequest(cfg, q, lenRet, limRet)
       IN req' = [req EXCEPT ![r] =
                    [Idle EXCEPT
                       !.view = q,
                       !.ret = h.ret,
                       !.calls = h.calls,
                       !.attached = h.attached,
                       !.contentType = h.contentType,
                       !.pc = IF h.calls # <<>> THEN "done"
                              ELSE IF q.body THEN "body" ELSE "route",
                       !.response = IF h.calls # <<>> THEN h.ret ELSE NoResponse]]
    /\ UNCHANGED <<phase, rootMax, hooks, options, cfg>>

\* a request arrives and the host runs the onRequest hook on it; a hook that
\* returns a value ends the request with that value, otherwise the request
\* goes on: to the body parser when it has a body, else to the route
OnRequest(r, q, lenRet, limRet) ==
    /\ phase = "installed"
    /\ "onRequest" \in hooks
    /\ req[r].pc = "idle"
    /\ LET h == onRequest(cfg, q, lenRet, limRet)
       IN req' = [req EXCEPT ![r] =
                    [Idle EXCEPT
                       !.view = q,
                       !.ret = h.ret,
                       !.calls = h.calls,
                       !.attached = h.attached,
                       !.contentType = h.contentType,
                       !.pc = IF h.ret # Undefined THEN "done"
                              ELSE IF q.body THEN "body" ELSE "route",
                       !.response = IF h.ret # Undefined THEN h.ret ELSE NoResponse]]
    /\ UNCHANGED <<phase, rootMax, hooks, options, cfg>>

----------------------------------------------------------------------------
\* The body stream: req.body.pipeThrough(sizeChecker), lines 425-447

\* the sizes of the chunks a body source produces
ChunkLens == 0..MaxChunkLen

\* mutant of overLimit: the comparison is one byte late
overLimit_late(received, maxSize) == received > maxSize + 1

\* mutant of overLimit: >= in place of >
overLimit_ge(received, maxSize) == received >= maxSize

\* line 431: the comparison of the running count with the cap
overLimit(received, maxSize) == received > maxSize

\* mutant of transform: controller.error(e) whatever e is, as the earlier
\* revision did (lines 148-152)
transform_always(c, received, chunk, limRet) ==
    LET count == received + chunk
        e == onLimit(c, limRet)
    IN IF overLimit(count, c.maxSize)
       THEN [received |-> count, calls |-> <<"onLimit">>, error |-> TRUE, e |-> e]
       ELSE [received |-> count, calls |-> <<>>, error |-> FALSE, e |-> Undefined]

\* mutant of transform: the count is raised by one per chunk
transform_perChunk(c, received, chunk, limRet) ==
    LET count == received + 1
        e == onLimit(c, limRet)
    IN IF overLimit(count, c.maxSize)
       THEN IF Truthy(e)
            THEN [received |-> count, calls |-> <<"onLimit">>, error |-> TRUE, e |-> e]
            ELSE [received |-> count, calls |-> <<"onLimit">>, error |-> FALSE, e |-> Undefined]
       ELSE [received |-> count, calls |-> <<>>, error |-> FALSE, e |-> Undefined]

\* mutant of transform: the comparison runs before the chunk is added
transform_checkFirst(c, received, chunk, limRet) ==
    LET count == received + chunk
        e == onLimit(c, limRet)
    IN IF overLimit(received, c.maxSize)
       THEN IF Truthy(e)
            THEN [received |-> count, calls |-> <<"onLimit">>, error |-> TRUE, e |-> e]
            ELSE [received |-> count, calls |-> <<"onLimit">>, error |-> FALSE, e |-> Undefined]
       ELSE [received |-> count, calls |-> <<>>, error |-> FALSE, e |-> Undefined]

\* transform(chunk, controller): the new count, the handlers called, and
\* either the error passed to controller.error or the chunk enqueued
transform(c, received, chunk, limRet) ==
    LET count == received + chunk
        e == onLimit(c, limRet)
    IN IF overLimit(count, c.maxSize)
       THEN IF Truthy(e)
            THEN [received |-> count, calls |-> <<"onLimit">>, error |-> TRUE, e |-> e]
            ELSE [received |-> count, calls |-> <<"onLimit">>, error |-> FALSE, e |-> Undefined]
       ELSE [received |-> count, calls |-> <<>>, error |-> FALSE, e |-> Undefined]

\* pipeTo takes the next chunk from the source and writes it to the
\* sizeChecker's writable side, whose queue holds up to highWaterMark chunks
Pipe(r, n) ==
    /\ req[r].pc = "body"
    /\ req[r].attached
    /\ req[r].src = "open"
    /\ req[r].stream = "readable"
    /\ Len(req[r].produced) < MaxChunks
    /\ highWaterMark - Len(req[r].wq) > 0
    /\ req' = [req EXCEPT ![r].produced = Append(@, n), ![r].wq = Append(@, n)]
    /\ UNCHANGED <<phase, rootMax, hooks, options, cfg>>

\* mutant of Transform: controller.enqueue(chunk) is missing
Transform_drop(r, limRet) ==
    /\ req[r].pc = "body"
    /\ req[r].attached
    /\ req[r].stream = "readable"
    /\ req[r].wq # <<>>
    /\ LET chunk == Head(req[r].wq)
           t == transform(cfg, req[r].received, chunk, limRet)
       IN req' = [req EXCEPT
                    ![r].received = t.received,
                    ![r].calls = @ \o t.calls,
                    ![r].wq = IF t.error THEN <<>> ELSE Tail(@),
                    ![r].stream = IF t.error THEN "errored" ELSE @,
                    ![r].err = t.e,
                    ![r].src = IF t.error /\ @ = "open" THEN "cancelled" ELSE @]
    /\ UNCHANGED <<phase, rootMax, hooks, options, cfg>>

\* mutant of Transform: a failed pipe leaves the source alone (preventCancel)
Transform_noCancel(r, limRet) ==
    /\ req[r].pc = "body"
    /\ req[r].attached
    /\ req[r].stream = "readable"
    /\ req[r].wq # <<>>
    /\ LET chunk == Head(req[r].wq)
           t == transform(cfg, req[r].received, chunk, limRet)
       IN req' = [req EXCEPT
                    ![r].received = t.received,
                    ![r].calls = @ \o t.calls,
                    ![r].wq = IF t.error THEN <<>> ELSE Tail(@),
                    ![r].stream = IF t.error THEN "errored" ELSE @,
                    ![r].err = t.e,
                    ![r].delivered = IF t.error THEN @ ELSE Append(@, chunk)]
    /\ UNCHANGED <<phase, rootMax, hooks, options, cfg>>

\* the bytes counted in all the slots of S together
RECURSIVE TotalReceived(_)
TotalReceived(S) ==
    IF S = {} THEN 0
    ELSE LET r == CHOOSE x \in S : TRUE
         IN req[r].received + TotalReceived(S \ {r})

\* mutant of Transform: let received = 0 is declared in the plugin, outside
\* the hook, so all requests count into one variable
Transform_shared(r, limRet) ==
    /\ req[r].pc = "body"
    /\ req[r].attached
    /\ req[r].stream = "readable"
    /\ req[r].wq # <<>>
    /\ LET chunk == Head(req[r].wq)
           t == transform(cfg, TotalReceived(DOMAIN req), chunk, limRet)
       IN req' = [req EXCEPT
                    ![r].received = t.received,
                    ![r].calls = @ \o t.calls,
                    ![r].wq = IF t.error THEN <<>> ELSE Tail(@),
                    ![r].stream = IF t.error THEN "errored" ELSE @,
                    ![r].err = t.e,
                    ![r].src = IF t.error /\ @ = "open" THEN "cancelled" ELSE @,
                    ![r].delivered = IF t.error THEN @ ELSE Append(@, chunk)]
    /\ UNCHANGED <<phase, rootMax, hooks, options, cfg>>

\* the sizeChecker runs transform on the oldest queued chunk (the body parser
\* is reading, so the readable side asks for it); controller.error fails the
\* readable side, drops what the writable side still queues, and pipeTo
\* cancels the source; controller.enqueue hands the chunk to the reader
Transform(r, limRet) ==
    /\ req[r].pc = "body"
    /\ req[r].attached
    /\ req[r].stream = "readable"
    /\ req[r].wq # <<>>
    /\ LET chunk == Head(req[r].wq)
           t == transform(cfg, req[r].received, chunk, limRet)
       IN req' = [req EXCEPT
                    ![r].received = t.received,
                    ![r].calls = @ \o t.calls,
                    ![r].wq = IF t.error THEN <<>> ELSE Tail(@),
                    ![r].stream = IF t.error THEN "errored" ELSE @,
                    ![r].err = t.e,
                    ![r].src = IF t.error /\ @ = "open" THEN "cancelled" ELSE @,
                    ![r].delivered = IF t.error THEN @ ELSE Append(@, chunk)]
    /\ UNCHANGED <<phase, rootMax, hooks, options, cfg>>

\* a body that is not piped through the sizeChecker is read by the body
\* parser straight from the source
DirectRead(r, n) ==
    /\ req[r].pc = "body"
    /\ ~req[r].attached
    /\ req[r].src = "open"
    /\ Len(req[r].produced) < MaxChunks
    /\ req' = [req EXCEPT ![r].produced = Append(@, n), ![r].delivered = Append(@, n)]
    /\ UNCHANGED <<phase, rootMax, hooks, options, cfg>>

\* the source has no more chunks
SourceEnd(r) ==
    /\ req[r].pc = "body"
    /\ req[r].src = "open"
    /\ req' = [req EXCEPT ![r].src = "closed"]
    /\ UNCHANGED <<phase, rootMax, hooks, options, cfg>>

\* mutant of Close: the readable side closes whatever its state
Close_anyState(r) ==
    /\ req[r].pc = "body"
    /\ req[r].src = "closed"
    /\ req[r].wq = <<>>
    /\ req' = [req EXCEPT ![r].stream = "closed", ![r].pc = "route"]
    /\ UNCHANGED <<phase, rootMax, hooks, options, cfg>>

\* every chunk written went through transform and the source has ended: the
\* readable side closes, the body parser has the whole body and the request
\* reaches the route
Close(r) ==
    /\ req[r].pc = "body"
    /\ req[r].src = "closed"
    /\ req[r].stream = "readable"
    /\ req[r].wq = <<>>
    /\ req' = [req EXCEPT ![r].stream = "closed", ![r].pc = "route"]
    /\ UNCHANGED <<phase, rootMax, hooks, options, cfg>>

\* mutant of onError: the hook resolves no error
onError_never(cause) == Undefined

\* mutant of onError: the test of the earlier revision (line 181), which
\* returns the cause only when it is an ElysiaStatus
onError_statusOnly(cause) ==
    IF cause.kind = "status" THEN cause ELSE Undefined

\* lines 365-372: the body parser's read failed with the error given to
\* controller.error; the host raises a PARSE error whose cause is that value
\* and the hook returns the cause when it is an ElysiaStatus or a Response
onError(cause) ==
    IF cause.kind \in {"status", "response"} THEN cause ELSE Undefined

OnError(r) ==
    /\ "onError" \in hooks
    /\ req[r].pc = "body"
    /\ req[r].stream = "errored"
    /\ LET resolved == onError(req[r].err)
       IN req' = [req EXCEPT
                    ![r].pc = "done",
                    ![r].response = IF resolved # Undefined THEN resolved ELSE HostParseError]
    /\ UNCHANGED <<phase, rootMax, hooks, options, cfg>>

\* the route handler answers
Route(r) ==
    /\ req[r].pc = "route"
    /\ req' = [req EXCEPT ![r].pc = "done", ![r].response = RouteOk]
    /\ UNCHANGED <<phase, rootMax, hooks, options, cfg>>

\* the response is sent and the request's state (its closure, its streams)
\* is gone
Finish(r) ==
    /\ req[r].pc = "done"
    /\ req' = [req EXCEPT ![r] = Idle]
    /\ UNCHANGED <<phase, rootMax, hooks, options, cfg>>

----------------------------------------------------------------------------
\* Specifications.  Every specification runs the same actions; each draws the
\* root app, the options, the request views, the custom handlers' return
\* values and the chunk sizes from the sets its claims are about.

\* the requests in flight at once
Slots == {"r1"}

\* the requests in flight at once when two sessions interleave
PairSlots == {"r1", "r2"}

InitIn(S, Roots) ==
    /\ phase = "new"
    /\ rootMax \in Roots
    /\ hooks = {}
    /\ options = NoOptions
    /\ cfg = NoCfg
    /\ req = [r \in S |-> Idle]

NextIn(S, Opts, Reqs, Rets, Lens) ==
    \/ \E o \in Opts : Install(o)
    \/ \E r \in S, q \in Reqs, lenRet \in Rets, limRet \in Rets :
          OnRequest(r, q, lenRet, limRet)
    \/ \E r \in S, n \in Lens : Pipe(r, n)
    \/ \E r \in S, limRet \in Rets : Transform(r, limRet)
    \/ \E r \in S, n \in Lens : DirectRead(r, n)
    \/ \E r \in S : SourceEnd(r)
    \/ \E r \in S : Close(r)
    \/ \E r \in S : OnError(r)
    \/ \E r \in S : Route(r)
    \/ \E r \in S : Finish(r)

InitOver(Roots) == InitIn(Slots, Roots)

NextOver(Opts, Reqs, Rets, Lens) == NextIn(Slots, Opts, Reqs, Rets, Lens)

\* Streamed bodies: every cap, deep inspection on and off, both kinds of
\* onLimit handler, every chunking of the body
StreamOptions ==
    {o \in UserOptions :
        /\ o.maxSize \in 0..MaxSize
        /\ o.validateBunConfig
        /\ ~o.strictContentLength
        /\ o.bodyCheckBlacklist = Absent
        /\ o.bodyCheckWhitelist = Absent
        /\ o.onLengthRequired = "default"}

StreamRequests ==
    {q \in Requests : q.body /\ q.cl = Absent /\ q.ct = Absent}

Init == InitOver({Absent})

Next == NextOver(StreamOptions, StreamRequests, CustomReturns, ChunkLens)

Spec == Init /\ [][Next]_vars

\* The streamed bodies under the scheduling of the host: the body parser
\* keeps reading, so a queued chunk is transformed, a finished pipe closes
\* the readable side, a failed read is raised as a PARSE error and a request
\* that reached the route is answered; the source and the arrival of
\* requests are left to the environment
Fairness ==
    \A r \in Slots :
        /\ WF_vars(\E limRet \in CustomReturns : Transform(r, limRet))
        /\ WF_vars(Close(r))
        /\ WF_vars(OnError(r))
        /\ WF_vars(Route(r))

SpecLive == Init /\ [][Next]_vars /\ Fairness

\* Two requests in flight under one installation: deep inspection on, the
\* default handlers, streamed and unstreamed bodies, chunks of one byte and
\* of MaxChunkLen bytes, every interleaving of the two requests' steps
PairOptions ==
    {o \in UserOptions :
        /\ o.maxSize = MaxSize
        /\ o.validateBunConfig
        /\ ~o.strictContentLength
        /\ o.bodyCheck
        /\ o.bodyCheckBlacklist = Absent
        /\ o.bodyCheckWhitelist = Absent
        /\ o.onLengthRequired = "default"
        /\ o.onLimit = "default"}

PairRequests ==
    {q \in Requests :
        /\ q.body
        /\ q.te \in {Absent, Present("chunked")}
        /\ q.cl = Absent
        /\ q.ct = Absent}

InitPair == InitIn(PairSlots, {Absent})

NextPair == NextIn(PairSlots, PairOptions, PairRequests, {Undefined}, {1, MaxChunkLen})

SpecPair == InitPair /\ [][NextPair]_vars

\* The declared-length gate: every cap, strict mode on and off, both kinds
\* of both handlers, every Content-Length and Transfer-Encoding
GateOptions ==
    {o \in UserOptions :
        /\ o.maxSize \in 0..MaxSize
        /\ o.validateBunConfig
        /\ o.bodyCheckBlacklist = Absent
        /\ o.bodyCheckWhitelist = Absent}

GateRequests == {q \in Requests : q.ct = Absent}

NextGate == NextOver(GateOptions, GateRequests, CustomReturns, {MaxChunkLen})

SpecGate == Init /\ [][NextGate]_vars

\* A cap of zero: maxSize 0, deep inspection on and off, both kinds of
\* onLimit, every Content-Length and Transfer-Encoding, empty and non-empty
\* chunks
ZeroCapOptions ==
    {o \in UserOptions :
        /\ o.maxSize = 0
        /\ o.validateBunConfig
        /\ ~o.strictContentLength
        /\ o.bodyCheckBlacklist = Absent
        /\ o.bodyCheckWhitelist = Absent
        /\ o.onLengthRequired = "default"}

NextZeroCap ==
    NextOver(ZeroCapOptions, GateRequests, {Status(400), Undefined}, {0, MaxChunkLen})

SpecZeroCap == Init /\ [][NextZeroCap]_vars

\* The content-type filters: every block list and allow list, every raw
\* Content-Type value, bodies larger than the cap
FilterOptions ==
    {o \in UserOptions :
        /\ o.maxSize \in {0, MaxSize}
        /\ o.validateBunConfig
        /\ ~o.strictContentLength
        /\ o.onLengthRequired = "default"
        /\ o.onLimit = "default"}

FilterRequests ==
    {q \in Requests :
        /\ q.body
        /\ q.cl \in {Absent, Present(LengthValue("digits", MaxLength))}}

NextFilter == NextOver(FilterOptions, FilterRequests, {Undefined}, {MaxChunkLen})

SpecFilter == Init /\ [][NextFilter]_vars

\* Installation: every cap, around the configured ceilings and around Bun's
\* default one, validation on and off
RootMaxes == {Absent} \cup {Present(n) : n \in 0..MaxSize}

InstallOptions ==
    {o \in UserOptions :
        /\ o.bodyCheckBlacklist = Absent
        /\ o.bodyCheckWhitelist = Absent
        /\ o.onLengthRequired = "default"
        /\ o.onLimit = "default"}

InstallRequests ==
    {q \in Requests :
        /\ q.body
        /\ q.te \in {Absent, Present("chunked")}
        /\ q.ct = Absent
        /\ q.cl \in {Absent, Present(LengthValue("digits", MaxLength))}}

InitInstall == InitOver(RootMaxes)

NextInstall == NextOver(InstallOptions, InstallRequests, {Undefined}, {MaxChunkLen})

SpecInstall == InitInstall /\ [][NextInstall]_vars

----------------------------------------------------------------------------
\* Notions the claims are stated in

\* the total number of bytes in a sequence of chunks
RECURSIVE Sum(_)
Sum(chunks) == IF chunks = <<>> THEN 0 ELSE Head(chunks) + Sum(Tail(chunks))

\* s without its leading and trailing whitespace
RECURSIVE Trim(_)
Trim(s) ==
    IF s = <<>> THEN s
    ELSE IF Head(s) = " " THEN Trim(Tail(s))
    ELSE IF s[Len(s)] = " " THEN Trim(SubSeq(s, 1, Len(s) - 1))
    ELSE s

\* the normalized base type of a Content-Type header: the substring before
\* the first ";", trimmed; "" for an absent header
NormalizedType(ct) ==
    IF ct = Absent THEN <<>>
    ELSE LET raw == ct[1]
             cut == {i \in 1..Len(raw) : raw[i] = ";"}
             first == CHOOSE i \in cut : \A j \in cut : i <= j
         IN Trim(IF cut = {} THEN raw ELSE SubSeq(raw, 1, first - 1))

\* the hook has run on the request in slot r
Seen(r) == req[r].pc # "idle"

\* the request declares a streaming transfer: it carries a transfer coding
Streaming(r) ==
    /\ req[r].view.body
    /\ req[r].view.te # Absent
    /\ req[r].view.te[1] # ""

\* the request has a body, declares no streaming transfer and declares no length
NoDeclaredLength(r) ==
    /\ ~Streaming(r)
    /\ \/ req[r].view.cl = Absent
       \/ req[r].view.cl[1].text = "empty"

\* the request has a body, no streaming transfer and a numeric declared length
NumericLength(r) ==
    /\ req[r].view.body
    /\ ~Streaming(r)
    /\ req[r].view.cl # Absent
    /\ req[r].view.cl[1].text = "digits"

\* the request's normalized content type is exempt from deep inspection: it
\* is in the block list, or an allow list is configured and does not hold it
Exempt(r) ==
    LET type == NormalizedType(req[r].view.ct)
    IN \/ type \in cfg.blacklist
       \/ cfg.whitelist # {} /\ type \notin cfg.whitelist

\* the hook called exactly this handler and ended the request with the value
\* the handler returned
AnsweredBy(r, handler) ==
    /\ req[r].calls = <<handler>>
    /\ req[r].ret # Undefined
    /\ req[r].pc = "done"
    /\ req[r].response = req[r].ret

\* the hook returned nothing and the request went on to the body parser and
\* the route
Proceeds(r) ==
    /\ req[r].ret = Undefined
    /\ \/ req[r].pc \in {"body", "route"}
       \/ req[r].pc = "done" /\ req[r].response = RouteOk

\* the Content-Type headers a request can carry
ContentTypes == {Absent} \cup {Present(v) : v \in TypeValues}

\* the text of a Content-Type header up to its first ";" (all of it when it
\* has none, nothing when the header is absent)
TextBeforeParameters(ct) ==
    IF ct = Absent THEN <<>>
    ELSE LET raw == ct[1]
             cut == {i \in 1..Len(raw) : raw[i] = ";"}
         IN IF cut = {} THEN raw
            ELSE SubSeq(raw, 1, (CHOOSE i \in cut : \A j \in cut : i <= j) - 1)

\* two Content-Type headers that differ at most in the text after the first ";"
SameButParameters(ct1, ct2) ==
    TextBeforeParameters(ct1) = TextBeforeParameters(ct2)

\* the final result of a request whose body stream was failed with the value e
AbortResult(e) ==
    IF e.kind \in {"status", "response"} THEN e ELSE HostParseError

\* the final result of a request as a function of what the hook did and of
\* how its body stream ended
Outcome(r) ==
    IF req[r].ret # Undefined THEN req[r].ret
    ELSE IF req[r].stream = "errored" THEN AbortResult(req[r].err)
    ELSE RouteOk

----------------------------------------------------------------------------
\* Claims

\* C1 as stated: a request with a body, no Transfer-Encoding and a numeric
\* Content-Length L is answered with the limit-exceeded response if and only
\* if L > maxSize, and proceeds otherwise.  Violated: a custom onLimit that
\* returns nothing lets a request with L > maxSize proceed (line 408).
C1_AsStated ==
    \A r \in Slots :
        Seen(r) /\ NumericLength(r) =>
            IF req[r].view.cl[1].n > cfg.maxSize
            THEN AnsweredBy(r, "onLimit")
            ELSE Proceeds(r) /\ req[r].calls = <<>>

\* C1 amended: for such a request the gate calls onLimit if and only if
\* L > maxSize and calls no other handler; when onLimit returns a value the
\* request ends with that value (status 413 by default); when L <= maxSize,
\* or when onLimit returns nothing, the request proceeds with no counting
\* stage attached.
C1_DeclaredLengthGate ==
    \A r \in Slots :
        Seen(r) /\ NumericLength(r) =>
            /\ req[r].calls = (IF req[r].view.cl[1].n > cfg.maxSize
                               THEN <<"onLimit">> ELSE <<>>)
            /\ req[r].ret # Undefined => AnsweredBy(r, "onLimit")
            /\ req[r].ret = Undefined => Proceeds(r)
            /\ req[r].calls # <<>> /\ cfg.onLimit = "default" => req[r].ret = Status(413)
            /\ ~req[r].attached

\* C1 witness: a declared length one byte over the cap was answered 413
C1_Witness ==
    \E r \in Slots :
        /\ Seen(r) /\ NumericLength(r)
        /\ req[r].view.cl[1].n = cfg.maxSize + 1
        /\ AnsweredBy(r, "onLimit")
        /\ req[r].response = Status(413)

C3_StrictBoundary ==
    \A r \in Slots :
        Seen(r) /\ req[r].attached =>
            /\ Sum(req[r].produced) <= cfg.maxSize =>
                  /\ req[r].stream # "errored"
                  /\ req[r].calls = <<>>
                  /\ req[r].stream = "closed" => req[r].delivered = req[r].produced
            /\ req[r].stream = "errored" => req[r].received > cfg.maxSize

\* C3 witness: a body of exactly maxSize > 0 bytes in two or more chunks
\* reached the route with every chunk forwarded
C3_Witness ==
    \E r \in Slots :
        /\ req[r].attached
        /\ req[r].pc = "route"
        /\ cfg.maxSize > 0
        /\ Len(req[r].produced) >= 2
        /\ Sum(req[r].produced) = cfg.maxSize
        /\ req[r].delivered = req[r].produced

\* C4 as stated: every request that lacks a declared length and a streaming
\* indicator under strictContentLength is answered with the length-required
\* response.  Violated: a request without a body is passed through (line
\* 382), and a custom onLengthRequired that returns nothing lets the request
\* proceed (line 400).
C4_AsStated ==
    \A r \in Slots :
        Seen(r) /\ NoDeclaredLength(r) /\ cfg.strictContentLength =>
            AnsweredBy(r, "onLengthRequired")

\* C4 amended: every request that has a body, lacks a declared length and a
\* streaming indicator under strictContentLength makes the gate call
\* onLengthRequired and nothing else; when the handler returns a value the
\* request ends with that value (status 411 by default); when it returns
\* nothing the request proceeds.
C4_LengthRequired ==
    \A r \in Slots :
        Seen(r) /\ req[r].view.body /\ NoDeclaredLength(r) /\ cfg.strictContentLength =>
            /\ req[r].calls = <<"onLengthRequired">>
            /\ req[r].ret # Undefined => AnsweredBy(r, "onLengthRequired")
            /\ req[r].ret = Undefined => Proceeds(r)
            /\ cfg.onLengthRequired = "default" => req[r].ret = Status(411)
            /\ ~req[r].attached

\* C4 witness: a body with an empty Content-Length value was answered 411
C4_Witness ==
    \E r \in Slots :
        /\ Seen(r) /\ req[r].view.body /\ NoDeclaredLength(r)
        /\ req[r].view.cl # Absent
        /\ cfg.strictContentLength
        /\ AnsweredBy(r, "onLengthRequired")
        /\ req[r].response = Status(411)

\* C5: a streaming request whose normalized content type is in the block
\* list never gets the counting stage: ctx.request is not replaced and no
\* byte is counted, whatever the body.  Violated by the code: it compares
\* the untrimmed text before the first ";" (C10), so "a ;" is not found in a
\* block list that holds "a".
C5_BlockListBypass ==
    \A r \in Slots :
        Seen(r) /\ Streaming(r) /\ NormalizedType(req[r].view.ct) \in cfg.blacklist =>
            /\ ~req[r].attached
            /\ req[r].received = 0
            /\ req[r].calls = <<>>

C7_BlockListWins ==
    \A r \in Slots :
        Seen(r) /\ Streaming(r) /\ cfg.bodyCheck =>
            LET type == NormalizedType(req[r].view.ct)
            IN /\ type \in cfg.blacklist /\ type \in cfg.whitelist => ~req[r].attached
               /\ type \notin cfg.blacklist /\ type \in cfg.whitelist => req[r].attached
               /\ type \notin cfg.blacklist /\ type \notin cfg.whitelist /\ cfg.whitelist # {}
                     => ~req[r].attached

\* C8 as stated: with validation on, an installation whose maxSize is greater
\* than or equal to the platform ceiling throws before any hook is
\* registered.  Violated: a maxSize equal to the ceiling installs (line 356).
C8_AsStated ==
    phase # "new" /\ options.validateBunConfig
        /\ options.maxSize >= (IF rootMax = Absent THEN BUN_MAX_SIZE ELSE rootMax[1])
    => phase = "failed" /\ hooks = {}

\* C8 amended: with validation on, an installation whose maxSize is strictly
\* greater than the platform ceiling (the root app's maxRequestBodySize, 128
\* MiB when it sets none) throws before any hook is registered and no request
\* is ever accepted; an installation throws in no other case.
C8_FailsBeforeHooks ==
    /\ phase # "new" =>
          (phase = "failed" <=>
              /\ options.validateBunConfig
              /\ options.maxSize > (IF rootMax = Absent THEN BUN_MAX_SIZE ELSE rootMax[1]))
    /\ phase = "failed" =>
          /\ hooks = {}
          /\ cfg = NoCfg
          /\ \A r \in Slots : ~Seen(r)

\* C8 witness: the installation threw against a ceiling the root app configured
C8_Witness ==
    /\ phase = "failed"
    /\ rootMax # Absent
    /\ options.maxSize = rootMax[1] + 1
    /\ hooks = {}

\* C9: with validation on, the installation throws when maxSize is larger
\* than Bun's maxRequestBodySize, and a maxSize that is not larger than it,
\* one equal to it included, installs with both hooks registered.
C9_NotLargerInstalls ==
    phase # "new" /\ options.validateBunConfig =>
        LET ceiling == IF rootMax = Absent THEN BUN_MAX_SIZE ELSE rootMax[1]
        IN IF options.maxSize > ceiling
           THEN phase = "failed"
           ELSE /\ phase = "installed"
                /\ hooks = {"onError", "onRequest"}
                /\ cfg.maxSize = options.maxSize

\* C9 witness: a maxSize equal to the ceiling was installed under validation
\* and a request went through its hook
C9_Witness ==
    /\ phase = "installed"
    /\ options.validateBunConfig
    /\ options.maxSize = (IF rootMax = Absent THEN BUN_MAX_SIZE ELSE rootMax[1])
    /\ \E r \in Slots : Seen(r)

\* C10: the value the hook compares against the lists is the normalized
\* base type: the text before the first ";" with surrounding whitespace
\* trimmed, "" for an absent header.  Violated by the code: it does not trim,
\* so "a ;" gives "a " (lines 391-392).
C10_NormalizedType ==
    \A r \in Slots :
        Seen(r) /\ req[r].view.body =>
            req[r].contentType = NormalizedType(req[r].view.ct)

\* C11: Content-Type parameters never affect classification: for the request
\* in flight and every request that differs from it at most in the text
\* after the first ";" of its Content-Type, the hook takes the same decision
\* (the same compared type, the same attach/skip decision, the same returned
\* value), and the final result of a request depends on its headers only
\* through that decision.
C11_ParametersIgnored ==
    \A r \in Slots :
        Seen(r) =>
            /\ \A ct2 \in ContentTypes :
                  SameButParameters(req[r].view.ct, ct2) =>
                      LET other == onRequest(cfg, [req[r].view EXCEPT !.ct = ct2],
                                             Status(411), Status(413))
                      IN /\ other.attached = req[r].attached
                         /\ other.contentType = req[r].contentType
                         /\ other.ret = req[r].ret
            /\ req[r].pc = "done" => req[r].response = Outcome(r)

\* C11 witness: under an allow list holding "a", a streamed body of type
\* "a;a" was inspected and answered 413
C11_Witness ==
    \E r \in Slots :
        /\ req[r].view.ct = Present(<<"a", ";", "a">>)
        /\ cfg.whitelist = {<<"a">>}
        /\ req[r].attached
        /\ req[r].pc = "done"
        /\ req[r].response = Status(413)

\* C12: when a Transfer-Encoding header is present the declared-length gate
\* decides nothing: the hook returns no value, calls no handler itself (only
\* an attached counting stage calls onLimit), and what it does is what it
\* does for the same request without a Content-Length under a configuration
\* without strictContentLength.  Violated by the code: it tests the header's
\* value (line 395), so a Transfer-Encoding header whose value is empty goes
\* through the gate and is answered 413 or 411.
C12_GateDefers ==
    \A r \in Slots :
        Seen(r) /\ req[r].view.te # Absent =>
            LET base == onRequest([cfg EXCEPT !.strictContentLength = FALSE],
                                  [req[r].view EXCEPT !.cl = Absent],
                                  Undefined, Undefined)
            IN /\ req[r].ret = Undefined
               /\ req[r].attached = base.attached
               /\ ~req[r].attached => req[r].calls = <<>>
               /\ \A i \in 1..Len(req[r].calls) : req[r].calls[i] # "onLengthRequired"

\* C13: the counting stage is attached to a request if and only if the
\* request declares a streaming transfer, deep inspection is enabled and its
\* normalized content type is not exempt; a request the declared-length gate
\* decides on (a body without a streaming transfer) never has it attached.
\* Violated by the code: under an allow list holding "a" the type "a ;"
\* normalizes to "a" and is to be inspected, but the code looks up "a " and
\* does not attach the stage (C10).
C13_AttachedIff ==
    \A r \in Slots :
        Seen(r) =>
            /\ req[r].attached <=> (Streaming(r) /\ cfg.bodyCheck /\ ~Exempt(r))
            /\ req[r].view.body /\ ~Streaming(r) => ~req[r].attached

\* C14: with bodyCheck enabled, a request whose base content type is in the
\* block list, or is missing from a non-empty allow list, bypasses the size
\* limit and is answered by the route even when it has no Transfer-Encoding
\* and a Content-Length greater than maxSize.  Violated by the code: the
\* Content-Length path runs before the lists are looked at and returns
\* onLimit(ctx) (lines 395-408), so the request is answered 413.
C14_ExemptBypassesGate ==
    \A r \in Slots :
        /\ Seen(r) /\ cfg.bodyCheck /\ Exempt(r)
        /\ req[r].view.te = Absent
        /\ NumericLength(r)
        /\ req[r].view.cl[1].n > cfg.maxSize
        => /\ req[r].calls = <<>>
           /\ Proceeds(r)

C16_BodylessUntouched ==
    \A r \in Slots :
        Seen(r) /\ ~req[r].view.body =>
            /\ req[r].ret = Undefined
            /\ req[r].calls = <<>>
            /\ ~req[r].attached
            /\ req[r].received = 0
            /\ req[r].pc \in {"route", "done"}
            /\ req[r].pc = "done" => req[r].response = RouteOk
            /\ \A ct \in ContentTypes, bl \in SUBSET ListTypes, wl \in SUBSET ListTypes :
                  \A lenRet \in CustomReturns, limRet \in CustomReturns :
                      onRequest([cfg EXCEPT !.blacklist = bl, !.whitelist = wl],
                                [req[r].view EXCEPT !.ct = ct], lenRet, limRet)
                          = Effect(Undefined, <<>>, FALSE, <<>>)

\* C16 witness: under strict mode, a request without a body, without a
\* Content-Length and without a Transfer-Encoding was answered by the route
C16_Witness ==
    \E r \in Slots :
        /\ ~req[r].view.body
        /\ req[r].view.cl = Absent
        /\ req[r].view.te = Absent
        /\ cfg.strictContentLength
        /\ req[r].pc = "done"
        /\ req[r].response = RouteOk

\* C17: whenever strictContentLength is disabled, a request with a body, no
\* Transfer-Encoding and no Content-Length (an absent header or an empty
\* value) proceeds: the hook returns nothing, calls neither handler and
\* attaches no counting stage, and the body reaches the route whole whatever
\* its size.
C17_NoLengthPasses ==
    \A r \in Slots :
        /\ Seen(r) /\ req[r].view.body
        /\ NoDeclaredLength(r)
        /\ ~options.strictContentLength
        => /\ req[r].ret = Undefined
           /\ req[r].calls = <<>>
           /\ ~req[r].attached
           /\ req[r].received = 0
           /\ Proceeds(r)
           /\ req[r].delivered = req[r].produced

\* C17 witness: strict mode off, no Content-Length and no Transfer-Encoding
\* header, a body larger than the cap answered by the route
C17_Witness ==
    \E r \in Slots :
        /\ req[r].view.body
        /\ req[r].view.te = Absent
        /\ req[r].view.cl = Absent
        /\ ~options.strictContentLength
        /\ Sum(req[r].delivered) > cfg.maxSize
        /\ req[r].pc = "done"
        /\ req[r].response = RouteOk

\* C18: a configuration whose allow list is the empty array behaves for
\* every request exactly like the same configuration without an allow list:
\* it resolves to the same constants, the hook takes the same decision, and
\* every streaming request whose content type is not in the block list gets
\* the counting stage when deep inspection is on.
C18_EmptyAllowList ==
    \A r \in Slots :
        Seen(r) /\ options.bodyCheckWhitelist = Present({}) =>
            LET without == resolve([options EXCEPT !.bodyCheckWhitelist = Absent])
                other == onRequest(without, req[r].view, Status(411), Status(413))
            IN /\ cfg = without
               /\ other.attached = req[r].attached
               /\ other.ret = req[r].ret
               /\ Streaming(r) /\ cfg.bodyCheck
                    /\ NormalizedType(req[r].view.ct) \notin cfg.blacklist
                  => req[r].attached

\* C18 witness: under an empty allow list a streamed body of type "a" was
\* inspected and answered 413
C18_Witness ==
    \E r \in Slots :
        /\ options.bodyCheckWhitelist = Present({})
        /\ req[r].view.ct = Present(<<"a">>)
        /\ Streaming(r)
        /\ req[r].attached
        /\ req[r].pc = "done"
        /\ req[r].response = Status(413)

\* the request in slot r declares, without a streaming transfer, a length
\* above the cap
DeclaredTooLarge(r) ==
    /\ req[r].view.body
    /\ ~Streaming(r)
    /\ req[r].view.cl # Absent
    /\ \/ req[r].view.cl[1].text = "infinity"
       \/ req[r].view.cl[1].text = "digits" /\ req[r].view.cl[1].n > cfg.maxSize

\* the handlers called for the request in slot r
Called(r) == {req[r].calls[i] : i \in 1..Len(req[r].calls)}

\* C19: the two violation kinds have independent handlers.  A missing
\* length under strict mode calls onLengthRequired once and never onLimit; a
\* size violation (a declared length above the cap, or a counted stream
\* above it) calls onLimit and never onLengthRequired; no handler is called
\* without its violation.  With the default onLengthRequired the result is
\* status 411 whether or not onLimit is overridden, and with the default
\* onLimit the result is status 413 whether or not onLengthRequired is
\* overridden.
C19_IndependentHandlers ==
    \A r \in Slots :
        Seen(r) =>
            /\ cfg.onLengthRequired = options.onLengthRequired
            /\ cfg.onLimit = options.onLimit
            /\ "onLengthRequired" \in Called(r) <=>
                  (req[r].view.body /\ NoDeclaredLength(r) /\ cfg.strictContentLength)
            /\ "onLengthRequired" \in Called(r) => req[r].calls = <<"onLengthRequired">>
            /\ "onLimit" \in Called(r) =>
                  /\ "onLengthRequired" \notin Called(r)
                  /\ \/ DeclaredTooLarge(r) /\ req[r].calls = <<"onLimit">>
                     \/ req[r].attached /\ req[r].received > cfg.maxSize
            /\ DeclaredTooLarge(r) => req[r].calls = <<"onLimit">>
            /\ "onLengthRequired" \in Called(r) /\ options.onLengthRequired = "default" =>
                  AnsweredBy(r, "onLengthRequired") /\ req[r].response = Status(411)
            /\ "onLimit" \in Called(r) /\ options.onLimit = "default" =>
                  IF req[r].attached
                  THEN /\ req[r].stream = "errored"
                       /\ req[r].err = Status(413)
                       /\ req[r].pc = "done" => req[r].response = Status(413)
                  ELSE AnsweredBy(r, "onLimit") /\ req[r].response = Status(413)

\* C19 witness: onLengthRequired is overridden, onLimit is not, and a
\* declared length above the cap was answered 413
C19_Witness ==
    \E r \in Slots :
        /\ options.onLengthRequired = "custom"
        /\ options.onLimit = "default"
        /\ DeclaredTooLarge(r)
        /\ AnsweredBy(r, "onLimit")
        /\ req[r].response = Status(413)

\* C20 as stated: every violation ends the request with the value its
\* handler produced, whatever kind of value that is.  Violated: a handler
\* that returns nothing lets the request go on (lines 400, 408, 433), and a
\* value given to controller.error that is neither an ElysiaStatus nor a
\* Response is not returned by onError (lines 367-371), so the request ends
\* with the host's parse-error response.
C20_AsStated ==
    \A r \in Slots :
        Seen(r) /\ req[r].calls # <<>> =>
            /\ ~req[r].attached => AnsweredBy(r, req[r].calls[1])
            /\ req[r].attached =>
                  /\ req[r].stream = "errored"
                  /\ req[r].pc = "done" => req[r].response = req[r].err

\* C20 amended: a violation at the gate whose handler returns a value ends
\* the request with that value, whatever its kind; a violation mid-stream
\* whose handler returns an ElysiaStatus or a Response ends the request with
\* that value, and one whose handler returns another truthy value ends it
\* with the host's parse-error response; a handler that returns nothing
\* lets the request go on.  A request never ends without a response.
C20_ViolationsResolved ==
    \A r \in Slots :
        Seen(r) =>
            /\ req[r].calls # <<>> /\ ~req[r].attached =>
                  IF req[r].ret # Undefined
                  THEN AnsweredBy(r, req[r].calls[1])
                  ELSE Proceeds(r)
            /\ req[r].attached =>
                  /\ req[r].ret = Undefined
                  /\ req[r].stream = "errored" =>
                        /\ req[r].calls # <<>>
                        /\ Truthy(req[r].err)
                        /\ req[r].pc \in {"body", "done"}
                        /\ req[r].pc = "done" =>
                              req[r].response =
                                 (IF req[r].err.kind \in {"status", "response"}
                                  THEN req[r].err ELSE HostParseError)
                  /\ req[r].stream # "errored" =>
                        /\ req[r].err = Undefined
                        /\ req[r].pc = "done" => req[r].response = RouteOk
            /\ req[r].pc = "done" => req[r].response # NoResponse

\* C20 witness: a custom onLimit returned a status mid-stream and the
\* request ended with it
C20_Witness ==
    \E r \in Slots :
        /\ options.onLimit = "custom"
        /\ req[r].attached
        /\ req[r].stream = "errored"
        /\ req[r].err = Status(400)
        /\ req[r].pc = "done"
        /\ req[r].response = Status(400)

\* C21: in the streaming path, when onLimit returns no value on a chunk that
\* takes the count over the cap, the stream is not aborted: that chunk is
\* forwarded downstream, the source is not cancelled and the stream stays
\* readable for the chunks that follow; a stream is failed only with a
\* truthy value.
C21_UndefinedContinues ==
    /\ [](\A r \in Slots : req[r].stream = "errored" => Truthy(req[r].err))
    /\ [][\A r \in Slots :
            /\ req[r].attached /\ req'[r].attached
            /\ Len(req'[r].calls) > Len(req[r].calls)
            /\ req'[r].err = Undefined
            => /\ req'[r].received > cfg.maxSize
               /\ req'[r].stream = "readable"
               /\ req'[r].delivered = Append(req[r].delivered, Head(req[r].wq))
               /\ req'[r].wq = Tail(req[r].wq)
               /\ req'[r].src = req[r].src
               /\ req'[r].pc = "body"]_vars

\* C21 witness: a custom onLimit returned nothing each time, a body larger
\* than the cap was forwarded whole and the route answered
C21_Witness ==
    \E r \in Slots :
        /\ cfg.onLimit = "custom"
        /\ req[r].attached
        /\ req[r].calls # <<>>
        /\ Sum(req[r].delivered) > cfg.maxSize
        /\ req[r].delivered = req[r].produced
        /\ req[r].pc = "done"
        /\ req[r].response = RouteOk

\* the handler of the session in slot r has returned a response every time
\* it was called: it was never called, or it was called once and that call
\* failed the stream
AlwaysAnswered(r) ==
    \/ req[r].calls = <<>>
    \/ Len(req[r].calls) = 1 /\ req[r].stream = "errored"

\* C22: while a streaming session's handler returns a response, the bytes
\* forwarded downstream total at most maxSize: what is forwarded is a
\* prefix of the chunks taken from the source, and once the stream is
\* failed the chunk that follows that prefix is the one that took the count
\* over the cap, of which nothing was forwarded.
C22_ForwardedWithinCap ==
    \A r \in Slots :
        Seen(r) /\ req[r].attached /\ AlwaysAnswered(r) =>
            /\ Sum(req[r].delivered) <= cfg.maxSize
            /\ Len(req[r].delivered) <= Len(req[r].produced)
            /\ req[r].delivered = SubSeq(req[r].produced, 1, Len(req[r].delivered))
            /\ req[r].stream = "errored" =>
                  /\ Len(req[r].delivered) < Len(req[r].produced)
                  /\ Sum(req[r].delivered) + req[r].produced[Len(req[r].delivered) + 1]
                        > cfg.maxSize
                  /\ req[r].received =
                        Sum(req[r].delivered) + req[r].produced[Len(req[r].delivered) + 1]

\* C22 witness: a chunk of MaxChunkLen bytes took the count from maxSize - 1
\* over the cap; the stream was failed with maxSize - 1 bytes forwarded
C22_Witness ==
    \E r \in Slots :
        /\ req[r].attached
        /\ cfg.maxSize > 0
        /\ req[r].stream = "errored"
        /\ Sum(req[r].delivered) = cfg.maxSize - 1
        /\ req[r].received = cfg.maxSize - 1 + MaxChunkLen
        /\ req[r].pc = "done"

\* the chunks the counting stage of slot r has observed: those it forwarded
\* and, when it failed the stream, the chunk it failed it on
Observed(r) ==
    SubSeq(req[r].produced, 1,
           Len(req[r].delivered) + (IF req[r].stream = "errored" THEN 1 ELSE 0))

\* C23: in every state of a streaming session the counter equals the sum of
\* the lengths of the chunks observed so far in that request: it is 0 when
\* the hook attaches the stage, each observed chunk adds exactly its length,
\* and it never decreases while the request lasts.
C23_CounterIsSum ==
    /\ [](\A r \in Slots :
            /\ req[r].attached => req[r].received = Sum(Observed(r))
            /\ ~req[r].attached => req[r].received = 0)
    /\ [][\A r \in Slots :
            /\ req[r].pc = "idle" /\ req'[r].pc # "idle" => req'[r].received = 0
            /\ req[r].attached /\ req'[r].attached =>
                  /\ req'[r].received >= req[r].received
                  /\ req'[r].received # req[r].received =>
                        /\ req[r].wq # <<>>
                        /\ req'[r].received = req[r].received + Head(req[r].wq)]_vars

\* C23 witness: three chunks of different sizes observed, the count is
\* their sum
C23_Witness ==
    \E r \in Slots :
        /\ req[r].attached
        /\ Len(Observed(r)) = 3
        /\ Observed(r)[1] # Observed(r)[2]
        /\ Observed(r)[2] # Observed(r)[3]
        /\ req[r].received = Observed(r)[1] + Observed(r)[2] + Observed(r)[3]
        /\ req[r].received > 0

\* C24: if the threshold is never crossed, the chunks delivered downstream
\* are the chunks the source produced, in the same order, none dropped or
\* duplicated (while the pipe runs: what is delivered followed by what is
\* queued is what was produced), and once the source has ended the
\* downstream stream eventually completes normally with the whole body.
C24_PassThrough ==
    /\ [](\A r \in Slots :
            req[r].attached /\ req[r].received <= cfg.maxSize =>
                /\ req[r].stream # "errored"
                /\ req[r].produced = req[r].delivered \o req[r].wq
                /\ req[r].stream = "closed" => req[r].delivered = req[r].produced)
    /\ \A r \in Slots :
          (req[r].attached /\ req[r].src = "closed" /\ Sum(req[r].produced) <= cfg.maxSize)
             ~> (/\ req[r].attached
                 /\ req[r].stream = "closed"
                 /\ req[r].delivered = req[r].produced
                 /\ req[r].calls = <<>>)

\* C24 witness: a body of exactly maxSize bytes in three chunks went
\* through the counting stage and the stream completed
C24_Witness ==
    \E r \in Slots :
        /\ req[r].attached
        /\ req[r].stream = "closed"
        /\ Len(req[r].produced) = 3
        /\ Sum(req[r].produced) = cfg.maxSize
        /\ req[r].delivered = req[r].produced
        /\ req[r].response = RouteOk

\* C25: when the monitor aborts a stream the downstream consumer observes
\* it as failed: a failed stream stays failed and is never closed, the
\* request never reaches the route with the truncated body, and the read
\* failure eventually ends the request with an error result.
C25_AbortSeenAsFailure ==
    /\ [](\A r \in Slots :
            req[r].stream = "errored" =>
                /\ req[r].pc \in {"body", "done"}
                /\ req[r].pc = "done" =>
                      /\ req[r].response # RouteOk
                      /\ req[r].response = AbortResult(req[r].err))
    /\ [][\A r \in Slots :
            req[r].stream = "errored" =>
                \/ req'[r].stream = "errored" /\ req'[r].delivered = req[r].delivered
                \/ req[r].pc = "done" /\ req'[r] = Idle]_vars
    /\ \A r \in Slots :
          (req[r].stream = "errored")
             ~> (req[r].stream = "errored" /\ req[r].pc = "done")

\* C25 witness: the source had ended with every chunk queued when the
\* stream was failed; the request ended with the handler's status
C25_Witness ==
    \E r \in Slots :
        /\ req[r].stream = "errored"
        /\ req[r].src = "closed"
        /\ Len(req[r].delivered) < Len(req[r].produced)
        /\ req[r].pc = "done"
        /\ req[r].response = Status(413)

\* C26: when the limit is exceeded mid-stream the underlying byte source is
\* terminated: the step that fails the stream cancels a source that is
\* still open and drops the chunks queued for the counting stage, and after
\* it no further chunk is taken from the source for that request.
C26_SourceTerminated ==
    /\ [](\A r \in Slots :
            req[r].stream = "errored" =>
                /\ req[r].src \in {"cancelled", "closed"}
                /\ req[r].wq = <<>>)
    /\ [][\A r \in Slots :
            /\ req[r].stream = "readable" /\ req'[r].stream = "errored" =>
                  /\ req'[r].src = (IF req[r].src = "open" THEN "cancelled" ELSE req[r].src)
                  /\ req'[r].produced = req[r].produced
            /\ req[r].stream = "errored" =>
                  \/ req'[r].produced = req[r].produced /\ req'[r].src = req[r].src
                  \/ req[r].pc = "done" /\ req'[r] = Idle]_vars

\* C26 witness: the stream was failed while the source was open and had
\* more chunks to give; the source was cancelled
C26_Witness ==
    \E r \in Slots :
        /\ req[r].stream = "errored"
        /\ req[r].src = "cancelled"
        /\ Len(req[r].produced) < MaxChunks
        /\ req[r].pc = "done"

\* C27: in every reachable state the counting stage holds at most one chunk
\* that it has accepted from the source and not yet forwarded downstream.
\* Violated by the code: the writable side of the sizeChecker is created
\* with highWaterMark 1024 * 1024 and no size function (line 442), so the
\* pipe writes up to 1048576 chunks into its queue while the reader has not
\* asked for them.
C27_SingleInFlight ==
    \A r \in Slots :
        req[r].attached => Len(req[r].wq) <= 1

\* what a counting stage processed alone forwards of the chunks it observes
\* under the default handler: every chunk up to, and not including, the
\* first one that takes the running count above the cap
RECURSIVE AloneDelivered(_, _, _)
AloneDelivered(chunks, count, cap) ==
    IF chunks = <<>> \/ count + Head(chunks) > cap THEN <<>>
    ELSE <<Head(chunks)>> \o AloneDelivered(Tail(chunks), count + Head(chunks), cap)

\* C28: streaming sessions of different requests are isolated.  For every
\* interleaving of the steps of two requests in flight under one
\* configuration, each request's counter, forwarded chunks and final result
\* are those of that request processed alone (functions of its own chunks
\* and of the cap only); every step changes one request and leaves the
\* other as it was; and the counter of a request that arrives is 0 whatever
\* the other request has counted.
C28_Isolation ==
    /\ [](\A r \in PairSlots :
            IF req[r].attached
            THEN /\ req[r].received = Sum(Observed(r))
                 /\ req[r].delivered = AloneDelivered(Observed(r), 0, cfg.maxSize)
                 /\ req[r].stream = "errored" <=> Sum(Observed(r)) > cfg.maxSize
                 /\ req[r].pc = "done" =>
                       req[r].response = (IF Sum(Observed(r)) > cfg.maxSize
                                          THEN Status(413) ELSE RouteOk)
            ELSE /\ req[r].received = 0
                 /\ req[r].delivered = req[r].produced
                 /\ req[r].pc = "done" => req[r].response = RouteOk)
    /\ [][\A r \in PairSlots :
            /\ req'[r] # req[r] => \A other \in PairSlots \ {r} : req'[other] = req[other]
            /\ req[r].pc = "idle" /\ req'[r].pc # "idle" =>
                  /\ req'[r].received = 0
                  /\ req'[r].produced = <<>>
                  /\ req'[r].delivered = <<>>]_vars

\* C28 witness: two inspected streams in flight at once, one failed above
\* the cap and the other at exactly the cap and still readable
C28_Witness ==
    /\ req["r1"].attached /\ req["r2"].attached
    /\ req["r1"].stream = "errored"
    /\ req["r1"].pc = "body"
    /\ req["r2"].pc = "body"
    /\ req["r2"].stream = "readable"
    /\ req["r2"].received = cfg.maxSize
    /\ req["r2"].received > 0
    /\ req["r2"].delivered = req["r2"].produced

\* C29: no request-handling step (the gate's decision, the classification,
\* a chunk's transform, an abort, the end of a request) changes the resolved
\* configuration: maxSize, the block list, the allow list, the strict and
\* bodyCheck flags, the handlers, the registered hooks and the ceiling read
\* from the root app stay what the installation made them.
C29_ConfigurationFixed ==
    /\ [](phase = "installed" => cfg = resolve(options))
    /\ [][req' # req => /\ cfg' = cfg
                        /\ options' = options
                        /\ rootMax' = rootMax
                        /\ hooks' = hooks
                        /\ phase' = phase]_vars
    /\ [][rootMax' = rootMax]_vars

\* C29 witness: after a gate rejection, or a stream failed above the cap,
\* the configuration is the one the installation resolved
C29_Witness ==
    \E r \in Slots :
        /\ req[r].pc = "done"
        /\ req[r].calls # <<>>
        /\ req[r].attached
        /\ req[r].stream = "errored"
        /\ cfg.maxSize > 0
        /\ cfg = resolve(options)

\* C30 as stated: under a maxSize of 0 every non-streaming request with a
\* declared length of at least 1 is answered with the limit-exceeded
\* response, and an inspected stream is aborted on its first non-empty
\* chunk.  Violated: a request without a body is passed through (line 382),
\* and a custom onLimit that returns nothing lets the request or the stream
\* go on (lines 408, 433).
C30_AsStated ==
    \A r \in Slots :
        Seen(r) /\ cfg.maxSize = 0 =>
            /\ /\ ~Streaming(r)
               /\ req[r].view.cl # Absent
               /\ req[r].view.cl[1].text = "digits"
               /\ req[r].view.cl[1].n >= 1
               => AnsweredBy(r, "onLimit")
            /\ req[r].attached /\ req[r].received > 0 => req[r].stream = "errored"

\* C30 amended: a maxSize of 0 is enforced as a cap.  For every request with
\* a body, no streaming transfer and a declared length of at least 1 the
\* gate calls onLimit and answers with its value when it returns one
\* (status 413 by default), and a declared length of 0 passes; an inspected
\* stream forwards empty chunks, calls onLimit on its first non-empty chunk
\* and is aborted there, with no byte forwarded, when the handler returns a
\* value.
C30_ZeroIsACap ==
    \A r \in Slots :
        Seen(r) /\ cfg.maxSize = 0 =>
            /\ NumericLength(r) =>
                  /\ req[r].calls = (IF req[r].view.cl[1].n >= 1
                                     THEN <<"onLimit">> ELSE <<>>)
                  /\ req[r].ret # Undefined => AnsweredBy(r, "onLimit")
                  /\ req[r].ret = Undefined => Proceeds(r)
                  /\ req[r].calls # <<>> /\ cfg.onLimit = "default" =>
                        req[r].response = Status(413)
            /\ req[r].attached =>
                  /\ req[r].calls = <<>> <=> req[r].received = 0
                  /\ req[r].stream = "errored" => req[r].received > 0
                  /\ AlwaysAnswered(r) /\ req[r].received > 0 =>
                        /\ req[r].stream = "errored"
                        /\ Sum(req[r].delivered) = 0
                  /\ cfg.onLimit = "default" /\ req[r].pc = "done" /\ req[r].received > 0 =>
                        req[r].response = Status(413)

\* C30 witness: under a cap of 0 an inspected stream forwarded an empty
\* chunk, was failed on its first non-empty chunk and was answered 413
C30_Witness ==
    \E r \in Slots :
        /\ cfg.maxSize = 0
        /\ req[r].attached
        /\ req[r].delivered = <<0>>
        /\ req[r].received > 0
        /\ req[r].stream = "errored"
        /\ req[r].pc = "done"
        /\ req[r].response = Status(413)

\* C31: a request with a Transfer-Encoding header handled while deep
\* inspection is disabled passes with no size enforcement at all: the hook
\* returns nothing, calls no handler and attaches no counting stage, and the
\* body reaches the route whole, whatever its Content-Length, its size and
\* strictContentLength.  Violated by the code: a Transfer-Encoding header
\* whose value is empty takes the Content-Length path (line 395, C12) and is
\* answered 413 or 411.
C31_NoInspectionNoLimit ==
    \A r \in Slots :
        Seen(r) /\ req[r].view.te # Absent /\ ~cfg.bodyCheck =>
            /\ req[r].ret = Undefined
            /\ req[r].calls = <<>>
            /\ ~req[r].attached
            /\ req[r].received = 0
            /\ req[r].delivered = req[r].produced
            /\ req[r].pc = "done" => req[r].response = RouteOk

\* the observed chunks of slot r after which the running count is above the cap
Crossings(r) ==
    {i \in 1..Len(Observed(r)) : Sum(SubSeq(Observed(r), 1, i)) > cfg.maxSize}

\* C32: in the streaming path onLimit is invoked on a chunk if and only if
\* the running count after adding that chunk exceeds maxSize, so the number
\* of invocations is the number of observed chunks that left the count above
\* the cap; when the handler returns a response (the default handler always
\* does) the stream is failed on that chunk, the handler has been invoked
\* exactly once, on the first crossing chunk, and no chunk is processed
\* afterwards.
C32_HandlerIffCrossing ==
    /\ [](\A r \in Slots :
            req[r].attached =>
                /\ Len(req[r].calls) = Cardinality(Crossings(r))
                /\ Called(r) \subseteq {"onLimit"}
                /\ req[r].stream = "errored" => Len(Observed(r)) \in Crossings(r)
                /\ cfg.onLimit = "default" =>
                      /\ Len(req[r].calls) <= 1
                      /\ req[r].calls # <<>> <=> req[r].stream = "errored"
                      /\ Crossings(r) \subseteq {Len(Observed(r))})
    /\ [][\A r \in Slots :
            /\ req[r].attached /\ req'[r].attached /\ Len(req'[r].wq) < Len(req[r].wq) =>
                  /\ req'[r].received = req[r].received + Head(req[r].wq)
                  /\ req'[r].calls =
                        (IF req[r].received + Head(req[r].wq) > cfg.maxSize
                         THEN Append(req[r].calls, "onLimit") ELSE req[r].calls)
                  /\ req'[r].stream = "errored" <=>
                        (req'[r].calls # req[r].calls /\ Truthy(req'[r].err))
            /\ req[r].stream = "errored" /\ req'[r].attached =>
                  /\ req'[r].calls = req[r].calls
                  /\ req'[r].received = req[r].received
                  /\ req'[r].delivered = req[r].delivered]_vars

\* C32 witness: under the default handler two chunks were forwarded, the
\* third took the count over the cap and the handler was invoked once
C32_Witness ==
    \E r \in Slots :
        /\ cfg.onLimit = "default"
        /\ req[r].attached
        /\ Len(req[r].delivered) = 2
        /\ Sum(req[r].delivered) > 0
        /\ req[r].calls = <<"onLimit">>
        /\ req[r].stream = "errored"
        /\ req[r].pc = "done"

\* C33: in the declared-length gate a handler that returns no value does
\* not terminate the request: when onLengthRequired (strict mode, length
\* missing) or onLimit (declared length over the cap) was called and
\* returned nothing, the request goes on to the body parser and the route
\* with no counting stage attached, its body read whole, and the route
\* answers.
C33_GateUndefinedPasses ==
    \A r \in Slots :
        /\ Seen(r) /\ req[r].view.body /\ ~Streaming(r)
        /\ req[r].calls # <<>>
        /\ req[r].ret = Undefined
        => /\ \/ /\ req[r].calls = <<"onLengthRequired">>
                 /\ cfg.onLengthRequired = "custom"
                 /\ NoDeclaredLength(r) /\ cfg.strictContentLength
              \/ /\ req[r].calls = <<"onLimit">>
                 /\ cfg.onLimit = "custom"
                 /\ DeclaredTooLarge(r)
           /\ ~req[r].attached
           /\ req[r].received = 0
           /\ req[r].pc \in {"body", "route", "done"}
           /\ req[r].delivered = req[r].produced
           /\ req[r].pc = "done" => req[r].response = RouteOk

\* C33 witness: a custom onLimit returned nothing for a declared length
\* over the cap and the route answered after reading the body
C33_Witness ==
    \E r \in Slots :
        /\ req[r].view.te = Absent
        /\ DeclaredTooLarge(r)
        /\ req[r].calls = <<"onLimit">>
        /\ req[r].ret = Undefined
        /\ req[r].produced # <<>>
        /\ req[r].pc = "done"
        /\ req[r].response = RouteOk

====
